---- MODULE Spec2Model ----
(***************************************************************************)
(* Invoice ledger and payment recorder of the invoice management demo.     *)
(*                                                                         *)
(* The store is the SQLite database behind Prisma (PRISMA_GUIDE.md:3, the  *)
(* migrations are SQLite DDL).  The model keeps the three tables the       *)
(* payment lifecycle touches (Invoice, InvoiceLineItem, Payment), the      *)
(* database's single write lock, one record per in-flight                  *)
(* POST /api/payments request (its position in the handler and the         *)
(* handler's locals), and the last response of the single-statement        *)
(* handlers (POST /api/invoices, PATCH and DELETE /api/invoices/[id]).     *)
(*                                                                         *)
(* Money is modelled in whole units; the inputs are chosen so that the     *)
(* tax computation is exact.                                               *)
(***************************************************************************)
EXTENDS Integers, Sequences, FiniteSets, TLC

\* Bounds of the model.
MaxInvoices == 1
MaxRequests == 2
MaxAmount == 2
MaxLineItems == 3
MaxCreations == 3
MaxHostLabels == 3

VARIABLES invoices, lineItems, payments, nextId, lock, req, reply

vars == <<invoices, lineItems, payments, nextId, lock, req, reply>>

Requests == 1..MaxRequests

\* An optional value is the empty sequence or a one-element sequence.
None == <<>>
Some(x) == <<x>>

\* A nullable DATETIME column: NULL or a timestamp.
NULL == "null"
Now == "now"

Statuses == {"DRAFT", "SENT", "VIEWED", "PARTIAL", "PAID", "OVERDUE", "CANCELLED"}

\* Request bodies the environment sends.  A missing field is falsy in the
\* handlers, as is 0 or the empty string: Absent stands for all of them.
Absent == 0
LineItemChoices == {<<[quantity |-> 2, unitPrice |-> 1]>>}
\* A tax rate is a number of tenths of a percent: 85 stands for 8.5.
RateScale == 10
TaxRateChoices == {Absent, 50 * RateScale}
DiscountChoices == {Absent, 3}
CreateStatusChoices == {"", "SENT", "PAID"}
PatchStatusChoices == {"", "SENT", "PARTIAL", "PAID", "CANCELLED"}
\* A DATETIME column that is never NULL: the due date given at creation, or
\* a later one given to PATCH.
Due == "due"
Later == "later"
RequiredFields == {"companyId", "clientId", "userId", "dueDate"}
\* Invoice bodies: the well-formed ones, and one per way of failing validation.
CreateBodies ==
  [fields : {RequiredFields}, lineItems : LineItemChoices,
   taxRate : TaxRateChoices, discount : DiscountChoices,
   status : CreateStatusChoices]
  \cup [fields : {RequiredFields \ {f} : f \in RequiredFields},
        lineItems : LineItemChoices, taxRate : {Absent}, discount : {Absent},
        status : {""}]
  \cup [fields : {RequiredFields}, lineItems : {<<>>}, taxRate : {Absent},
        discount : {Absent}, status : {""}]
InvoiceIdChoices == 0..MaxInvoices
AmountChoices == (-1)..MaxAmount

----------------------------------------------------------------------------
\* Pure computations of the handlers.

RECURSIVE SumAmounts(_)
SumAmounts(items) ==
  IF items = <<>> THEN 0
  ELSE items[1].quantity * items[1].unitPrice + SumAmounts(Tail(items))

\* Faulty variant: the tax is computed on what is left after the discount.
TotalsTaxAfterDiscount(items, taxRate, discount) ==
  LET subtotal == SumAmounts(items)
      taxAmount == ((subtotal - discount) * taxRate) \div (100 * RateScale)
  IN [subtotal |-> subtotal, taxRate |-> taxRate, taxAmount |-> taxAmount,
      discount |-> discount, total |-> subtotal + taxAmount - discount]

\* total = subtotal + subtotal * (taxRate / 100) - discount; the division is
\* exact for the bodies the environment sends.
Totals(items, taxRate, discount) ==
  LET subtotal == SumAmounts(items)
      taxAmount == (subtotal * taxRate) \div (100 * RateScale)
  IN [subtotal |-> subtotal, taxRate |-> taxRate, taxAmount |-> taxAmount,
      discount |-> discount, total |-> subtotal + taxAmount - discount]

\* The serial of the generated number INV-<year>-<serial>: the count of
\* stored invoices plus one.  The zero-padding of the serial maps different
\* serials to different strings, and the year is the current one for every
\* creation, so two generated numbers are equal exactly when their serials
\* are.  (A body may carry its own invoiceNumber; the bodies of the model
\* do not.)
InvoiceNumber(invoiceCount) == invoiceCount + 1

\* The unique index on Invoice.invoiceNumber: some stored invoice has number n.
NumberTaken(n) == \E i \in DOMAIN invoices : invoices[i].invoiceNumber = n

RemainingAmount(inv) == inv.total - inv.amountPaid

\* Faulty variant: the balance is remembered through the status, so an
\* invoice that PATCH moved out of PAID or PARTIAL takes payments up to its
\* total again.
ExceedsBalanceByStatus(inv, amount) ==
  IF inv.status \in {"PAID", "PARTIAL"}
  THEN amount > inv.total - inv.amountPaid
  ELSE amount > inv.total

\* Faulty variant: compares with the total, forgetting what is already paid.
ExceedsBalanceWrong(inv, amount) == amount > inv.total

ExceedsBalance(inv, amount) == amount > RemainingAmount(inv)

\* Faulty variant: overwrites the paid amount instead of adding to it.
NewAmountPaidWrong(inv, amount) == amount

NewAmountPaid(inv, amount) == inv.amountPaid + amount

\* Faulty variant: a cancelled invoice keeps its status when it is paid.
NewStatusKeepsCancelled(inv, newAmountPaid) ==
  IF inv.status = "CANCELLED" THEN inv.status
  ELSE IF newAmountPaid >= inv.total THEN "PAID"
  ELSE IF newAmountPaid > 0 THEN "PARTIAL"
  ELSE inv.status

\* Faulty variant: an exact full payment is not recognised as PAID.
NewStatusWrong(inv, newAmountPaid) ==
  IF newAmountPaid > inv.total THEN "PAID"
  ELSE IF newAmountPaid > 0 THEN "PARTIAL"
  ELSE inv.status

NewStatus(inv, newAmountPaid) ==
  IF newAmountPaid >= inv.total THEN "PAID"
  ELSE IF newAmountPaid > 0 THEN "PARTIAL"
  ELSE inv.status

PaymentsOf(i) == {p \in payments : p.invoiceId = i}

RECURSIVE SumPaid(_)
SumPaid(ps) ==
  IF ps = {} THEN 0
  ELSE LET p == CHOOSE q \in ps : TRUE IN p.amount + SumPaid(ps \ {p})

----------------------------------------------------------------------------
\* Request records.

IdleReq ==
  [pc |-> "idle", invoiceId |-> 0, amount |-> 0, inv |-> None,
   newPay |-> None, upd |-> None, code |-> 0, err |-> "", rem0 |-> None]

DoneReq(q, code, err) ==
  [q EXCEPT !.pc = "done", !.inv = None, !.newPay = None, !.upd = None,
            !.code = code, !.err = err]

NoReply == [op |-> "", code |-> 0, err |-> ""]

Init ==
  /\ invoices = <<>>
  /\ lineItems = {}
  /\ payments = {}
  /\ nextId = 1
  /\ lock = 0
  /\ req = [r \in Requests |-> IdleReq]
  /\ reply = NoReply

----------------------------------------------------------------------------
\* POST /api/payments.

\* Faulty variant: the validation checks presence only, not the sign of the
\* amount.
SubmitNoSignCheck(r, invoiceId, amount) ==
  /\ req[r].pc = "idle"
  /\ req' = [req EXCEPT ![r] =
       IF invoiceId = Absent \/ amount = Absent
       THEN DoneReq([IdleReq EXCEPT !.invoiceId = invoiceId, !.amount = amount],
                    400, "validation")
       ELSE [IdleReq EXCEPT !.pc = "begin", !.invoiceId = invoiceId,
                            !.amount = amount,
                            !.rem0 = IF invoiceId \in DOMAIN invoices
                                     THEN Some(RemainingAmount(invoices[invoiceId]))
                                     ELSE None]]
  /\ UNCHANGED <<invoices, lineItems, payments, nextId, lock, reply>>

\* The handler parses the body and validates it before any database call.
\* rem0 is a history field: the balance of the invoice in the store at the
\* moment the request arrives (None when the invoice does not exist).
Submit(r, invoiceId, amount) ==
  /\ req[r].pc = "idle"
  /\ req' = [req EXCEPT ![r] =
       IF invoiceId = Absent \/ amount = Absent \/ amount <= 0
       THEN DoneReq([IdleReq EXCEPT !.invoiceId = invoiceId, !.amount = amount],
                    400, "validation")
       ELSE [IdleReq EXCEPT !.pc = "begin", !.invoiceId = invoiceId,
                            !.amount = amount,
                            !.rem0 = IF invoiceId \in DOMAIN invoices
                                     THEN Some(RemainingAmount(invoices[invoiceId]))
                                     ELSE None]]
  /\ UNCHANGED <<invoices, lineItems, payments, nextId, lock, reply>>

\* Faulty variant: a store that lets transactions run side by side, each
\* reading the committed rows (no writer lock).
TxBeginNoLock(r) ==
  /\ req[r].pc = "begin"
  /\ req' = [req EXCEPT ![r].pc = "find"]
  /\ UNCHANGED <<invoices, lineItems, payments, nextId, lock, reply>>

\* prisma.$transaction opens a transaction on the SQLite database: the
\* database has one writer at a time, a second transaction waits for it.
TxBegin(r) ==
  /\ req[r].pc = "begin"
  /\ lock = 0
  /\ lock' = r
  /\ req' = [req EXCEPT ![r].pc = "find"]
  /\ UNCHANGED <<invoices, lineItems, payments, nextId, reply>>

\* tx.invoice.findUnique({ where: { id } })
FindInvoice(r) ==
  /\ req[r].pc = "find"
  /\ req' = [req EXCEPT ![r].pc = "check",
                        ![r].inv = IF req[r].invoiceId \in DOMAIN invoices
                                   THEN Some(invoices[req[r].invoiceId])
                                   ELSE None]
  /\ UNCHANGED <<invoices, lineItems, payments, nextId, lock, reply>>

\* Faulty variant: the payment row written before the failure stays (the
\* writes are not in one transaction).
AbortedPaymentsLeak(r) ==
  payments \cup {[invoiceId |-> p.invoiceId,
                  seq |-> Cardinality(PaymentsOf(p.invoiceId)) + 1,
                  amount |-> p.amount] : p \in {req[r].newPay[k] : k \in DOMAIN req[r].newPay}}

\* The Payment table after a transaction is rolled back: its row is gone.
AbortedPayments(r) == payments

\* Faulty variant: the handler runs a failed transaction again instead of
\* answering.
FailRetries(r, err) ==
  /\ req' = [req EXCEPT ![r].pc = "begin", ![r].inv = None,
                        ![r].newPay = None, ![r].upd = None]
  /\ lock' = IF lock = r THEN 0 ELSE lock
  /\ payments' = AbortedPayments(r)
  /\ UNCHANGED <<invoices, lineItems, nextId, reply>>

\* A throw inside the transaction callback rolls the transaction back; the
\* catch block answers 500 with the error's message.
Fail(r, err) ==
  /\ req' = [req EXCEPT ![r] = DoneReq(req[r], 500, err)]
  /\ lock' = IF lock = r THEN 0 ELSE lock
  /\ payments' = AbortedPayments(r)
  /\ UNCHANGED <<invoices, lineItems, nextId, reply>>

\* Faulty variant: the missing invoice is not checked and the payment row
\* is stored.
ThrowNotFoundIgnored(r) ==
  /\ req[r].pc = "check"
  /\ req[r].inv = None
  /\ req' = [req EXCEPT ![r] = DoneReq(req[r], 201, "")]
  /\ lock' = IF lock = r THEN 0 ELSE lock
  /\ payments' = payments \cup {[invoiceId |-> req[r].invoiceId, seq |-> 1,
                                 amount |-> req[r].amount]}
  /\ UNCHANGED <<invoices, lineItems, nextId, reply>>

ThrowNotFound(r) ==
  /\ req[r].pc = "check"
  /\ req[r].inv = None
  /\ Fail(r, "notfound")

ThrowExceeds(r) ==
  /\ req[r].pc = "check"
  /\ req[r].inv # None
  /\ ExceedsBalance(req[r].inv[1], req[r].amount)
  /\ Fail(r, "exceeds")

\* tx.payment.create: the row is written inside the transaction.  Of the
\* row's columns the model keeps invoiceId and amount.
CreatePayment(r) ==
  /\ req[r].pc = "check"
  /\ req[r].inv # None
  /\ ~ExceedsBalance(req[r].inv[1], req[r].amount)
  /\ req' = [req EXCEPT ![r].pc = "update",
                        ![r].newPay = Some([invoiceId |-> req[r].invoiceId,
                                            amount |-> req[r].amount])]
  /\ UNCHANGED <<invoices, lineItems, payments, nextId, lock, reply>>

\* tx.invoice.update with the values computed from the invoice read earlier.
UpdateInvoice(r) ==
  /\ req[r].pc = "update"
  /\ LET inv == req[r].inv[1]
         newAmountPaid == NewAmountPaid(inv, req[r].amount)
         newStatus == NewStatus(inv, newAmountPaid)
     IN req' = [req EXCEPT ![r].pc = "commit",
                           ![r].upd = Some([amountPaid |-> newAmountPaid,
                                            status |-> newStatus,
                                            setPaidDate |-> (newStatus = "PAID")])]
  /\ UNCHANGED <<invoices, lineItems, payments, nextId, lock, reply>>

\* Faulty variant: the payment is upserted on the invoice, replacing the
\* payment row the invoice had.
CommitReplacesPayment(r) ==
  /\ req[r].pc = "commit"
  /\ req[r].invoiceId \in DOMAIN invoices
  /\ LET i == req[r].invoiceId
         u == req[r].upd[1]
         p == req[r].newPay[1]
     IN /\ payments' = (payments \ PaymentsOf(i)) \cup
             {[invoiceId |-> i, seq |-> 1, amount |-> p.amount]}
        /\ invoices' = [invoices EXCEPT
             ![i].amountPaid = u.amountPaid,
             ![i].status = u.status,
             ![i].paidDate = IF u.setPaidDate THEN Now ELSE @]
  /\ lock' = IF lock = r THEN 0 ELSE lock
  /\ req' = [req EXCEPT ![r] = DoneReq(req[r], 201, "")]
  /\ UNCHANGED <<lineItems, nextId, reply>>

\* Faulty variant: the invoice update has no where clause and rewrites every
\* invoice.
CommitEveryInvoice(r) ==
  /\ req[r].pc = "commit"
  /\ req[r].invoiceId \in DOMAIN invoices
  /\ LET i == req[r].invoiceId
         u == req[r].upd[1]
         p == req[r].newPay[1]
     IN /\ payments' = payments \cup
             {[invoiceId |-> i, seq |-> Cardinality(PaymentsOf(i)) + 1,
               amount |-> p.amount]}
        /\ invoices' = [j \in DOMAIN invoices |->
             [invoices[j] EXCEPT !.amountPaid = u.amountPaid,
                                 !.status = u.status,
                                 !.paidDate = IF u.setPaidDate THEN Now ELSE @]]
  /\ lock' = IF lock = r THEN 0 ELSE lock
  /\ req' = [req EXCEPT ![r] = DoneReq(req[r], 201, "")]
  /\ UNCHANGED <<lineItems, nextId, reply>>

\* The callback returns: the transaction commits the payment row and the
\* invoice update together, and the handler answers 201.
Commit(r) ==
  /\ req[r].pc = "commit"
  /\ req[r].invoiceId \in DOMAIN invoices   \* the row read is still there
  /\ LET i == req[r].invoiceId
         u == req[r].upd[1]
         p == req[r].newPay[1]
     IN /\ payments' = payments \cup
             {[invoiceId |-> i, seq |-> Cardinality(PaymentsOf(i)) + 1,
               amount |-> p.amount]}
        /\ invoices' = [invoices EXCEPT
             ![i].amountPaid = u.amountPaid,
             ![i].status = u.status,
             ![i].paidDate = IF u.setPaidDate THEN Now ELSE @]
  /\ lock' = IF lock = r THEN 0 ELSE lock
  /\ req' = [req EXCEPT ![r] = DoneReq(req[r], 201, "")]
  /\ UNCHANGED <<lineItems, nextId, reply>>

\* The response has been sent; the slot takes the next request.
Retire(r) ==
  /\ req[r].pc = "done"
  /\ req' = [req EXCEPT ![r] = IdleReq]
  /\ UNCHANGED <<invoices, lineItems, payments, nextId, lock, reply>>

----------------------------------------------------------------------------
\* The single-statement handlers.  Each issues one write to the database,
\* which waits while a transaction holds the write lock.

\* The Invoice row that prisma.invoice.create stores.  The create call
\* passes no tenant: the row has none (tenantId NULL).
InvoiceRow(items, taxRate, discount, status, number) ==
  LET t == Totals(items, taxRate, discount)
  IN [invoiceNumber |-> number, tenantId |-> NULL,
      status |-> IF status = "" THEN "DRAFT" ELSE status,
      paidDate |-> NULL, dueDate |-> Due,
      subtotal |-> t.subtotal, taxRate |-> t.taxRate,
      taxAmount |-> t.taxAmount, discount |-> t.discount,
      total |-> t.total, amountPaid |-> 0]

\* Faulty variant: the order index counts from 1.
LineItemRowsOneBased(id, items) ==
  {[invoiceId |-> id, order |-> k,
    quantity |-> items[k].quantity,
    unitPrice |-> items[k].unitPrice,
    amount |-> items[k].quantity * items[k].unitPrice]
   : k \in DOMAIN items}

\* The InvoiceLineItem rows of the nested create.
LineItemRows(id, items) ==
  {[invoiceId |-> id, order |-> k - 1,
    quantity |-> items[k].quantity,
    unitPrice |-> items[k].unitPrice,
    amount |-> items[k].quantity * items[k].unitPrice]
   : k \in DOMAIN items}

\* Faulty variant: the body is validated after the invoice has been stored;
\* a body without line items leaves an empty invoice behind its 400.
CreateInvoiceValidatesLate(fields, items, taxRate, discount, status) ==
  IF fields # RequiredFields \/ items = <<>>
  THEN /\ reply' = [op |-> "createInvoice", code |-> 400, err |-> "validation"]
       /\ lock = 0
       /\ nextId <= MaxInvoices
       /\ invoices' = invoices @@
            (nextId :> InvoiceRow(items, taxRate, discount, status,
                                  InvoiceNumber(Cardinality(DOMAIN invoices))))
       /\ nextId' = nextId + 1
       /\ UNCHANGED <<lineItems, payments, lock, req>>
  ELSE /\ lock = 0
       /\ nextId <= MaxInvoices
       /\ LET number == InvoiceNumber(Cardinality(DOMAIN invoices))
          IN IF NumberTaken(number)
             THEN /\ reply' = [op |-> "createInvoice", code |-> 500,
                               err |-> "duplicate"]
                  /\ UNCHANGED <<invoices, lineItems, nextId>>
             ELSE /\ invoices' = invoices @@
                       (nextId :> InvoiceRow(items, taxRate, discount, status, number))
                  /\ lineItems' = lineItems \cup LineItemRows(nextId, items)
                  /\ nextId' = nextId + 1
                  /\ reply' = [op |-> "createInvoice", code |-> 201, err |-> ""]
       /\ UNCHANGED <<payments, lock, req>>

\* POST /api/invoices, run without another request in between its count and
\* its create; a create whose invoiceNumber is taken violates the unique
\* index and the catch block answers 500.
\* fields is the set of required scalar fields present
\* in the body; items is the lineItems array (empty: missing or []).
CreateInvoice(fields, items, taxRate, discount, status) ==
  IF fields # RequiredFields \/ items = <<>>
  THEN /\ reply' = [op |-> "createInvoice", code |-> 400, err |-> "validation"]
       /\ UNCHANGED <<invoices, lineItems, payments, nextId, lock, req>>
  ELSE /\ lock = 0
       /\ nextId <= MaxInvoices
       /\ LET number == InvoiceNumber(Cardinality(DOMAIN invoices))
          IN IF NumberTaken(number)
             THEN /\ reply' = [op |-> "createInvoice", code |-> 500,
                               err |-> "duplicate"]
                  /\ UNCHANGED <<invoices, lineItems, nextId>>
             ELSE /\ invoices' = invoices @@
                       (nextId :> InvoiceRow(items, taxRate, discount, status, number))
                  /\ lineItems' = lineItems \cup LineItemRows(nextId, items)
                  /\ nextId' = nextId + 1
                  /\ reply' = [op |-> "createInvoice", code |-> 201, err |-> ""]
       /\ UNCHANGED <<payments, lock, req>>

\* Faulty variant: cancelling an invoice also clears what was paid on it.
PatchInvoiceClearsPaid(id, status, dueDate) ==
  /\ lock = 0
  /\ IF id \in DOMAIN invoices
     THEN /\ invoices' = [invoices EXCEPT
               ![id].status = IF status # "" THEN status ELSE @,
               ![id].dueDate = IF dueDate # "" THEN dueDate ELSE @,
               ![id].paidDate = IF status = "PAID" THEN Now ELSE @,
               ![id].amountPaid = IF status = "CANCELLED" THEN 0 ELSE @]
          /\ reply' = [op |-> "patch", code |-> 200, err |-> ""]
     ELSE /\ reply' = [op |-> "patch", code |-> 500, err |-> "notfound"]
          /\ UNCHANGED invoices
  /\ UNCHANGED <<lineItems, payments, nextId, lock, req>>

\* PATCH /api/invoices/[id] with body.status (the empty string: no status)
\* and body.dueDate (the empty string: no due date).  Of the columns PATCH can write
\* the model keeps status, dueDate and paidDate (notes and terms are written
\* the way dueDate is).  prisma.invoice.update throws when no row has the
\* id; the catch block answers 500.
PatchInvoice(id, status, dueDate) ==
  /\ lock = 0
  /\ IF id \in DOMAIN invoices
     THEN /\ invoices' = [invoices EXCEPT
               ![id].status = IF status # "" THEN status ELSE @,
               ![id].dueDate = IF dueDate # "" THEN dueDate ELSE @,
               ![id].paidDate = IF status = "PAID" THEN Now ELSE @]
          /\ reply' = [op |-> "patch", code |-> 200, err |-> ""]
     ELSE /\ reply' = [op |-> "patch", code |-> 500, err |-> "notfound"]
          /\ UNCHANGED invoices
  /\ UNCHANGED <<lineItems, payments, nextId, lock, req>>

\* Faulty variant: the payments of the deleted invoice stay behind (no
\* cascade on the Payment foreign key).
DeleteInvoiceKeepsPayments(id) ==
  /\ lock = 0
  /\ IF id \in DOMAIN invoices
     THEN /\ invoices' = [i \in DOMAIN invoices \ {id} |-> invoices[i]]
          /\ lineItems' = {l \in lineItems : l.invoiceId # id}
          /\ payments' = payments
          /\ reply' = [op |-> "delete", code |-> 200, err |-> ""]
     ELSE /\ reply' = [op |-> "delete", code |-> 500, err |-> "notfound"]
          /\ UNCHANGED <<invoices, lineItems, payments>>
  /\ UNCHANGED <<nextId, lock, req>>

\* DELETE /api/invoices/[id]; the foreign keys of InvoiceLineItem and Payment
\* are ON DELETE CASCADE.
DeleteInvoice(id) ==
  /\ lock = 0
  /\ IF id \in DOMAIN invoices
     THEN /\ invoices' = [i \in DOMAIN invoices \ {id} |-> invoices[i]]
          /\ lineItems' = {l \in lineItems : l.invoiceId # id}
          /\ payments' = {p \in payments : p.invoiceId # id}
          /\ reply' = [op |-> "delete", code |-> 200, err |-> ""]
     ELSE /\ reply' = [op |-> "delete", code |-> 500, err |-> "notfound"]
          /\ UNCHANGED <<invoices, lineItems, payments>>
  /\ UNCHANGED <<nextId, lock, req>>

----------------------------------------------------------------------------
\* Storage failures: a database call of a handler throws (the database is
\* unreachable, a transaction times out waiting for the lock, ...).

\* A database call inside the payment transaction throws: the transaction
\* is rolled back and the catch block answers 500.
TxFault(r) ==
  /\ \/ req[r].pc \in {"begin", "find", "update", "commit"}
     \/ /\ req[r].pc = "check"
        /\ req[r].inv # None
        /\ ~ExceedsBalance(req[r].inv[1], req[r].amount)
  /\ Fail(r, "persistence")

\* The database call of a single-statement handler throws.
HandlerFault(op) ==
  /\ reply' = [op |-> op, code |-> 500, err |-> "persistence"]
  /\ UNCHANGED <<invoices, lineItems, payments, nextId, lock, req>>

----------------------------------------------------------------------------

Next ==
  \/ \E r \in Requests, i \in InvoiceIdChoices, a \in AmountChoices : Submit(r, i, a)
  \/ \E r \in Requests : TxBegin(r)
  \/ \E r \in Requests : FindInvoice(r)
  \/ \E r \in Requests : ThrowNotFound(r)
  \/ \E r \in Requests : ThrowExceeds(r)
  \/ \E r \in Requests : CreatePayment(r)
  \/ \E r \in Requests : UpdateInvoice(r)
  \/ \E r \in Requests : Commit(r)
  \/ \E r \in Requests : Retire(r)
  \/ \E b \in CreateBodies :
        CreateInvoice(b.fields, b.lineItems, b.taxRate, b.discount, b.status)
  \/ \E i \in 1..MaxInvoices, s \in PatchStatusChoices : PatchInvoice(i, s, "")
  \/ \E i \in 1..MaxInvoices : DeleteInvoice(i)

Faults ==
  \/ \E r \in Requests : TxFault(r)
  \/ \E op \in {"createInvoice", "patch", "delete"} : HandlerFault(op)

\* The system on a store that never fails.
Spec == Init /\ [][Next]_vars

NextFault == Next \/ Faults

\* The system on a store whose calls may fail.
SpecFault == Init /\ [][NextFault]_vars

----------------------------------------------------------------------------
\* Invoice creation on its own, over bodies with up to MaxLineItems line
\* items taken from the seed's invoices (a negative line among them).

TotalsLines ==
  {[quantity |-> 80, unitPrice |-> 125], [quantity |-> 50, unitPrice |-> 100],
   [quantity |-> 1, unitPrice |-> -5000]}
TotalsItemChoices == UNION {[1..n -> TotalsLines] : n \in 1..MaxLineItems}
TotalsBodies ==
  [fields : {RequiredFields}, lineItems : TotalsItemChoices,
   taxRate : {Absent, 85}, discount : {Absent, 2000}, status : {""}]

NextTotals ==
  \E b \in TotalsBodies :
     CreateInvoice(b.fields, b.lineItems, b.taxRate, b.discount, b.status)

SpecTotals == Init /\ [][NextTotals]_vars

----------------------------------------------------------------------------
\* Invoice creation taken apart into its two database calls, which are not
\* in a transaction: prisma.invoice.count() and prisma.invoice.create().
\* Here req holds one record per in-flight POST /api/invoices request: its
\* position in the handler and the count it has read.  The bodies are
\* well-formed and carry no invoiceNumber.

IdleCreation == [pc |-> "idle", invoiceCount |-> 0, code |-> 0, err |-> ""]

InitNumbers ==
  /\ invoices = <<>>
  /\ lineItems = {}
  /\ payments = {}
  /\ nextId = 1
  /\ lock = 0
  /\ req = [r \in Requests |-> IdleCreation]
  /\ reply = NoReply

\* const invoiceCount = await prisma.invoice.count()
CountInvoices(r) ==
  /\ req[r].pc = "idle"
  /\ req' = [req EXCEPT ![r].pc = "counted",
                        ![r].invoiceCount = Cardinality(DOMAIN invoices)]
  /\ UNCHANGED <<invoices, lineItems, payments, nextId, lock, reply>>

\* prisma.invoice.create with the number made from the count read earlier;
\* the unique index rejects a number that is taken and the catch block
\* answers 500.
InsertInvoice(r, items) ==
  /\ req[r].pc = "counted"
  /\ lock = 0
  /\ nextId <= MaxCreations
  /\ LET number == InvoiceNumber(req[r].invoiceCount)
     IN IF NumberTaken(number)
        THEN /\ req' = [req EXCEPT ![r].pc = "done", ![r].code = 500,
                                   ![r].err = "duplicate"]
             /\ UNCHANGED <<invoices, lineItems, nextId>>
        ELSE /\ invoices' = invoices @@
                  (nextId :> InvoiceRow(items, Absent, Absent, "", number))
             /\ lineItems' = lineItems \cup LineItemRows(nextId, items)
             /\ nextId' = nextId + 1
             /\ req' = [req EXCEPT ![r].pc = "done", ![r].code = 201]
  /\ UNCHANGED <<payments, lock, reply>>

\* The response has been sent; the slot takes the next request.
RetireCreation(r) ==
  /\ req[r].pc = "done"
  /\ req' = [req EXCEPT ![r] = IdleCreation]
  /\ UNCHANGED <<invoices, lineItems, payments, nextId, lock, reply>>

NextNumbers ==
  \/ \E r \in Requests : CountInvoices(r)
  \/ \E r \in Requests, items \in LineItemChoices : InsertInvoice(r, items)
  \/ \E r \in Requests : RetireCreation(r)
  \/ \E i \in 1..MaxCreations : DeleteInvoice(i)

SpecNumbers == InitNumbers /\ [][NextNumbers]_vars

----------------------------------------------------------------------------
\* The system on a seeded store: two invoices of two tenants, shaped after
\* the seed's invoice 3 (SENT, nothing paid) and invoice 2 (PARTIAL, one
\* payment), with small amounts.

SeedInvoices ==
  (1 :> [invoiceNumber |-> 3, status |-> "SENT", paidDate |-> NULL, dueDate |-> Due,
         subtotal |-> 2, taxRate |-> 0, taxAmount |-> 0, discount |-> 0,
         total |-> 2, amountPaid |-> 0, tenantId |-> "acme"])
  @@ (2 :> [invoiceNumber |-> 2, status |-> "PARTIAL", paidDate |-> NULL, dueDate |-> Due,
            subtotal |-> 2, taxRate |-> 0, taxAmount |-> 0, discount |-> 0,
            total |-> 2, amountPaid |-> 1, tenantId |-> "globex"])

SeedLineItems ==
  {[invoiceId |-> i, order |-> 1, quantity |-> 2, unitPrice |-> 1, amount |-> 2]
   : i \in DOMAIN SeedInvoices}

SeedPayments == {[invoiceId |-> 2, seq |-> 1, amount |-> 1]}

InitSeeded ==
  /\ invoices = SeedInvoices
  /\ lineItems = SeedLineItems
  /\ payments = SeedPayments
  /\ nextId = 3
  /\ lock = 0
  /\ req = [r \in Requests |-> IdleReq]
  /\ reply = NoReply

\* The tenant a request is made under: the one its host header resolves to.
\* The requests of slot 1 come in on acme's subdomain, the others on globex's.
TenantOf(r) == IF r = 1 THEN "acme" ELSE "globex"

SeedIds == DOMAIN SeedInvoices
SeedAmountChoices == 1..MaxAmount
SeedPatchStatusChoices == {"", "CANCELLED"}
DueDateChoices == {"", Later}

NextSeeded ==
  \/ \E r \in Requests, i \in SeedIds, a \in SeedAmountChoices : Submit(r, i, a)
  \/ \E r \in Requests : TxBegin(r)
  \/ \E r \in Requests : FindInvoice(r)
  \/ \E r \in Requests : ThrowNotFound(r)
  \/ \E r \in Requests : ThrowExceeds(r)
  \/ \E r \in Requests : CreatePayment(r)
  \/ \E r \in Requests : UpdateInvoice(r)
  \/ \E r \in Requests : Commit(r)
  \/ \E r \in Requests : Retire(r)
  \/ \E r \in Requests : TxFault(r)
  \/ \E i \in SeedIds, s \in SeedPatchStatusChoices, d \in DueDateChoices :
        PatchInvoice(i, s, d)
  \/ \E i \in SeedIds : DeleteInvoice(i)

\* The seeded system, on a store whose transactions may fail.
SpecSeeded == InitSeeded /\ [][NextSeeded]_vars

----------------------------------------------------------------------------
\* Invoice creation with several line items, followed by payments and PATCH
\* edits of the created invoice.

SmallLines == {[quantity |-> 2, unitPrice |-> 1], [quantity |-> 1, unitPrice |-> -1]}
LineBodies ==
  [fields : {RequiredFields},
   lineItems : UNION {[1..n -> SmallLines] : n \in 1..MaxLineItems},
   taxRate : {Absent}, discount : {Absent}, status : {""}]

NextLines ==
  \/ \E b \in LineBodies :
        CreateInvoice(b.fields, b.lineItems, b.taxRate, b.discount, b.status)
  \/ \E r \in Requests, i \in InvoiceIdChoices, a \in SeedAmountChoices : Submit(r, i, a)
  \/ \E r \in Requests : TxBegin(r)
  \/ \E r \in Requests : FindInvoice(r)
  \/ \E r \in Requests : ThrowNotFound(r)
  \/ \E r \in Requests : ThrowExceeds(r)
  \/ \E r \in Requests : CreatePayment(r)
  \/ \E r \in Requests : UpdateInvoice(r)
  \/ \E r \in Requests : Commit(r)
  \/ \E r \in Requests : Retire(r)
  \/ \E i \in 1..MaxInvoices, s \in SeedPatchStatusChoices, d \in DueDateChoices :
        PatchInvoice(i, s, d)

SpecLines == Init /\ [][NextLines]_vars

----------------------------------------------------------------------------
\* Payment recording on the seeded store under fair scheduling.

NextLive ==
  \/ \E r \in Requests, i \in SeedIds, a \in SeedAmountChoices : Submit(r, i, a)
  \/ \E r \in Requests : TxBegin(r)
  \/ \E r \in Requests : FindInvoice(r)
  \/ \E r \in Requests : ThrowNotFound(r)
  \/ \E r \in Requests : ThrowExceeds(r)
  \/ \E r \in Requests : CreatePayment(r)
  \/ \E r \in Requests : UpdateInvoice(r)
  \/ \E r \in Requests : Commit(r)
  \/ \E r \in Requests : Retire(r)
  \/ \E r \in Requests : TxFault(r)
  \/ \E i \in SeedIds : DeleteInvoice(i)

\* The next step of the handler run of request r: every awaited database
\* call of the handler eventually returns or throws (a transaction waiting
\* for the write lock gets it or its wait times out), and the runtime then
\* runs the handler's continuation.
HandlerStep(r) ==
  \/ TxBegin(r)
  \/ FindInvoice(r)
  \/ ThrowNotFound(r)
  \/ ThrowExceeds(r)
  \/ CreatePayment(r)
  \/ UpdateInvoice(r)
  \/ Commit(r)
  \/ TxFault(r)

SpecLive ==
  /\ InitSeeded
  /\ [][NextLive]_vars
  /\ \A r \in Requests : WF_vars(HandlerStep(r))

----------------------------------------------------------------------------
\* Tenant resolution (lib/tenant).  A string is a sequence of characters.

Dot == <<".">>
Colon == <<":">>
DotLocalhost == <<".", "l", "o", "c", "a", "l", "h", "o", "s", "t">>

\* s.indexOf(pat): the offset of the first occurrence of pat in s, or -1.
IndexOf(s, pat) ==
  LET ks == {k \in 0..(Len(s) - Len(pat)) : SubSeq(s, k + 1, k + Len(pat)) = pat}
  IN IF ks = {} THEN -1 ELSE CHOOSE k \in ks : \A j \in ks : k <= j

\* s.includes(pat)
Includes(s, pat) == IndexOf(s, pat) # -1

\* s.split(pat)[0]: what stands before the first occurrence of pat.
SplitFirst(s, pat) ==
  IF Includes(s, pat) THEN SubSeq(s, 1, IndexOf(s, pat)) ELSE s

\* s.split(".")
RECURSIVE SplitDots(_)
SplitDots(s) ==
  IF ~Includes(s, Dot) THEN <<s>>
  ELSE <<SplitFirst(s, Dot)>> \o SplitDots(SubSeq(s, IndexOf(s, Dot) + 2, Len(s)))

\* Faulty variant: the port is not removed from the first label of a
\* production host.
GetSubdomainKeepsPort(host) ==
  IF host = None \/ host = Some(<<>>) THEN None
  ELSE LET h == host[1]
           parts == SplitDots(h)
       IN IF Includes(h, DotLocalhost)
          THEN LET subdomain == SplitFirst(SplitFirst(h, DotLocalhost), Colon)
               IN IF subdomain = <<>> THEN None ELSE Some(subdomain)
          ELSE IF Len(parts) >= 3
               THEN Some(parts[1])
               ELSE None

\* getSubdomain: host is the host header (None: no header); the result is
\* None for null, Some(s) for the string s.
GetSubdomain(host) ==
  IF host = None \/ host = Some(<<>>) THEN None
  ELSE LET h == host[1]
           parts == SplitDots(h)
       IN IF Includes(h, DotLocalhost)
          THEN LET subdomain == SplitFirst(SplitFirst(h, DotLocalhost), Colon)
               IN IF subdomain = <<>> THEN None ELSE Some(subdomain)
          ELSE IF Len(parts) >= 3
               THEN Some(SplitFirst(parts[1], Colon))
               ELSE None

AcmeName == <<"a", "c", "m", "e">>
GlobexName == <<"g", "l", "o", "b", "e", "x">>
DormantName == <<"d", "o", "r", "m", "a", "n", "t">>

\* The Tenant table: subdomain is unique, active defaults to true.  No
\* handler of the system writes it.
Tenants ==
  {[id |-> "acme", subdomain |-> AcmeName, active |-> TRUE],
   [id |-> "globex", subdomain |-> GlobexName, active |-> TRUE],
   [id |-> "dormant", subdomain |-> DormantName, active |-> FALSE]}

\* getCurrentTenant: the tenant whose subdomain the host header names, or
\* None.  An empty subdomain is falsy.
GetCurrentTenant(host) ==
  LET subdomain == GetSubdomain(host)
  IN IF subdomain = None \/ subdomain = Some(<<>>) THEN None
     ELSE LET found == {t \in Tenants : t.subdomain = subdomain[1]}
          IN IF found = {} THEN None ELSE Some(CHOOSE t \in found : TRUE)

\* Faulty variant: the active flag is not looked at.
RequireTenantAnyState(host) ==
  LET tenant == GetCurrentTenant(host)
  IN IF tenant = None
     THEN [threw |-> "Tenant not found", tenant |-> None]
     ELSE [threw |-> "", tenant |-> tenant]

\* requireTenant: the tenant, or the message of the error thrown.
RequireTenant(host) ==
  LET tenant == GetCurrentTenant(host)
  IN IF tenant = None
     THEN [threw |-> "Tenant not found", tenant |-> None]
     ELSE IF ~tenant[1].active
          THEN [threw |-> "tenant inactive", tenant |-> None]
          ELSE [threw |-> "", tenant |-> tenant]

\* Host headers: up to MaxHostLabels labels joined by dots, with or without
\* a port; or no header at all.
HostLabels ==
  {<<>>, AcmeName, DormantName, <<"l", "o", "c", "a", "l", "h", "o", "s", "t">>,
   <<"e", "x", "a", "m", "p", "l", "e">>, <<"c", "o", "m">>}
Ports == {<<>>, <<":", "3", "0", "0", "0">>}

RECURSIVE JoinDots(_)
JoinDots(labels) ==
  IF Len(labels) = 1 THEN labels[1]
  ELSE labels[1] \o Dot \o JoinDots(Tail(labels))

HostChoices ==
  {None} \cup
  {Some(JoinDots(ls) \o port) :
     ls \in UNION {[1..n -> HostLabels] : n \in 1..MaxHostLabels}, port \in Ports}

\* A request arrives with a host header and the tenant is resolved from it;
\* reply records the header, the subdomain found and what requireTenant did.
ResolveTenant(host) ==
  /\ reply' = [op |-> "requireTenant", host |-> host,
               subdomain |-> GetSubdomain(host),
               result |-> RequireTenant(host)]
  /\ UNCHANGED <<invoices, lineItems, payments, nextId, lock, req>>

NextTenant == \E host \in HostChoices : ResolveTenant(host)

SpecTenant == Init /\ [][NextTenant]_vars

----------------------------------------------------------------------------
\* The tenant invoice dashboard (app/s/[subdomain]/invoices/page.tsx).

\* orderBy createdAt desc: the ids of S, the latest created first.
RECURSIVE NewestFirst(_)
NewestFirst(S) ==
  IF S = {} THEN <<>>
  ELSE LET m == CHOOSE x \in S : \A y \in S : y <= x
       IN <<m>> \o NewestFirst(S \ {m})

RECURSIVE SumOver(_, _, _)
SumOver(invs, S, column) ==
  IF S = {} THEN 0
  ELSE LET i == CHOOSE x \in S : TRUE
       IN invs[i][column] + SumOver(invs, S \ {i}, column)

\* What the page shows of the invoices S of the store invs: the table rows
\* and the statistics cards.
PageOf(invs, S) ==
  LET ids == NewestFirst(S)
  IN [notFound |-> FALSE,
      rows |-> [k \in DOMAIN ids |->
                 [id |-> ids[k], invoiceNumber |-> invs[ids[k]].invoiceNumber,
                  total |-> invs[ids[k]].total, status |-> invs[ids[k]].status]],
      stats |-> [total |-> Cardinality(S),
                 totalRevenue |-> SumOver(invs, S, "total"),
                 totalPaid |-> SumOver(invs, S, "amountPaid"),
                 draft |-> Cardinality({i \in S : invs[i].status = "DRAFT"}),
                 sent |-> Cardinality({i \in S : invs[i].status = "SENT"}),
                 paid |-> Cardinality({i \in S : invs[i].status = "PAID"})]]

NotFoundPage == [notFound |-> TRUE, rows |-> <<>>, stats |-> None]

\* Faulty variant: findMany without the tenantId condition.
TenantInvoicesPageUnscoped(tenant, invs) ==
  IF tenant = None THEN NotFoundPage
  ELSE PageOf(invs, DOMAIN invs)

\* TenantInvoicesPage on the Invoice table invs, from the point where
\* getCurrentTenant has returned tenant (None: null).
TenantInvoicesPage(tenant, invs) ==
  IF tenant = None THEN NotFoundPage
  ELSE PageOf(invs, {i \in DOMAIN invs : invs[i].tenantId = tenant[1].id})

\* Host headers of page requests: a subdomain of each stored tenant, one of
\* no tenant, the bare domain, and none.
PageHosts ==
  {None, Some(<<"e", "x", "a", "m", "p", "l", "e">> \o Dot \o <<"c", "o", "m">>)}
  \cup {Some(n \o DotLocalhost \o <<":", "3", "0", "0", "0">>)
          : n \in {AcmeName, GlobexName, DormantName, <<"n", "o", "n", "e">>}}

\* What getCurrentTenant returns for each of these headers.
PageTenant == [host \in PageHosts |-> GetCurrentTenant(host)]

----------------------------------------------------------------------------
\* Properties.

Responded(r) == req[r].pc = "done"
Succeeded(r) == req[r].pc = "done" /\ req[r].code = 201

\* C1: every stored invoice satisfies 0 <= amountPaid <= total, whatever
\* sequence of invoice creations, payments, PATCHes and DELETEs led to it
\* (invoices created with a discount above subtotal + tax included).
C1_AmountPaidWithinTotal ==
  \A i \in DOMAIN invoices :
    0 <= invoices[i].amountPaid /\ invoices[i].amountPaid <= invoices[i].total

\* Two requests raced for the same balance: they are for the same invoice,
\* arrived when it had the same balance bal, each amount fits in bal and
\* the two together do not.
Raced(r1, r2) ==
  /\ r1 # r2
  /\ req[r1].pc \notin {"idle"} /\ req[r2].pc \notin {"idle"}
  /\ req[r1].invoiceId = req[r2].invoiceId
  /\ req[r1].rem0 # None /\ req[r1].rem0 = req[r2].rem0
  /\ req[r1].amount > 0 /\ req[r2].amount > 0
  /\ req[r1].amount <= req[r1].rem0[1]
  /\ req[r2].amount <= req[r1].rem0[1]
  /\ req[r1].amount + req[r2].amount > req[r1].rem0[1]

\* C2: of two concurrent payment requests on one invoice whose amounts each
\* fit in the remaining balance but not together, at most one succeeds; the
\* other, unless the store failed it, is rejected for exceeding the balance
\* it finds (while the invoice is still there), and amountPaid stays within
\* total.
C2_AtMostOneSucceeds ==
  \A r1, r2 \in Requests :
    Raced(r1, r2) =>
      /\ ~(Succeeded(r1) /\ Succeeded(r2))
      /\ (Succeeded(r1) /\ Responded(r2) /\ req[r2].err # "persistence"
          /\ req[r1].invoiceId \in DOMAIN invoices)
           => req[r2].err = "exceeds"
      /\ req[r1].invoiceId \in DOMAIN invoices =>
           invoices[req[r1].invoiceId].amountPaid
             <= invoices[req[r1].invoiceId].total

\* C2 witness: two raced requests have both been answered, one with 201 and
\* the other with the balance error.
C2_Witness ==
  \E r1, r2 \in Requests :
    /\ Raced(r1, r2)
    /\ Succeeded(r1)
    /\ Responded(r2) /\ req[r2].err = "exceeds"

\* C3: for every invoice, status is PAID exactly when amountPaid >= total.
C3_PaidIffFullyPaid ==
  \A i \in DOMAIN invoices :
    (invoices[i].status = "PAID") <=> (invoices[i].amountPaid >= invoices[i].total)

\* C4: for every invoice, status is PARTIAL exactly when
\* 0 < amountPaid < total.
C4_PartialIffPartlyPaid ==
  \A i \in DOMAIN invoices :
    (invoices[i].status = "PARTIAL")
      <=> (0 < invoices[i].amountPaid /\ invoices[i].amountPaid < invoices[i].total)

\* The request's own step: r moved in this step.
Moved(r) == req'[r] # req[r]
StoreUnchanged == invoices' = invoices /\ payments' = payments /\ lineItems' = lineItems

\* The transaction of r has read, or is about to read, an invoice that is
\* in the store.
InTx(r) == req[r].pc \in {"find", "check", "update", "commit"}
Fits(r) ==
  /\ req[r].invoiceId \in DOMAIN invoices
  /\ req[r].amount <= RemainingAmount(invoices[req[r].invoiceId])

\* C5: a payment with amount > 0 on an existing invoice with
\* amount <= total - amountPaid is never rejected: its transaction goes
\* through to the answer 201, which adds exactly one payment row of that
\* amount for the invoice and raises the invoice's amountPaid by exactly
\* the amount.
C5_FittingPaymentSucceeds ==
  [][\A r \in Requests :
       (InTx(r) /\ Fits(r) /\ Moved(r)) =>
          \/ /\ req'[r].pc \in {"check", "update", "commit"}
             /\ StoreUnchanged
          \/ /\ req'[r].pc = "done" /\ req'[r].code = 201
             /\ \E p \in payments' \ payments :
                  /\ payments' = payments \cup {p}
                  /\ p.invoiceId = req[r].invoiceId
                  /\ p.amount = req[r].amount
             /\ invoices'[req[r].invoiceId].amountPaid
                  = invoices[req[r].invoiceId].amountPaid + req[r].amount
    ]_vars

\* C5 witness: a request was answered 201 and its payment row is stored
\* beside earlier payments of the same invoice.
C5_Witness ==
  \E r \in Requests :
    /\ Succeeded(r)
    /\ req[r].invoiceId \in DOMAIN invoices
    /\ \E p \in PaymentsOf(req[r].invoiceId) : p.amount = req[r].amount
    /\ invoices[req[r].invoiceId].amountPaid > req[r].amount

\* C6: a payment with amount > total - amountPaid is answered with the
\* balance error, and from the moment its transaction starts to its answer
\* neither the invoices nor the payments change.
C6_OverBalanceRejected ==
  [][\A r \in Requests :
       (req[r].pc \in {"find", "check"}
        /\ req[r].invoiceId \in DOMAIN invoices /\ ~Fits(r)) =>
          /\ StoreUnchanged
          /\ Moved(r) =>
               \/ req[r].pc = "find" /\ req'[r].pc = "check"
               \/ /\ req'[r].pc = "done"
                  /\ req'[r].code # 201
                  /\ req'[r].err = "exceeds"
    ]_vars

\* C6 witness: a request for more than the balance of a partly paid invoice
\* was answered with the balance error.
C6_Witness ==
  \E r \in Requests :
    /\ Responded(r) /\ req[r].err = "exceeds"
    /\ req[r].invoiceId \in DOMAIN invoices
    /\ invoices[req[r].invoiceId].amountPaid > 0
    /\ req[r].amount <= invoices[req[r].invoiceId].total

\* C7: payment recording is all-or-nothing.  In every state of the store
\* the payment rows of an invoice add up to its amountPaid (no row without
\* its invoice update, no update without its row), and a request that ends
\* in failure, at whatever step, leaves the store as it was.
C7_AllOrNothing ==
  /\ [](\A i \in DOMAIN invoices :
          SumPaid(PaymentsOf(i)) = invoices[i].amountPaid)
  /\ [][\A r \in Requests :
          (req[r].pc # "done" /\ req'[r].pc = "done" /\ req'[r].code # 201)
            => StoreUnchanged
       ]_vars

\* C7 witness: the store failed a request whose amount fitted the balance,
\* and the invoice has neither a payment row nor a paid amount.
C7_Witness ==
  \E r \in Requests :
    /\ Responded(r) /\ req[r].err = "persistence"
    /\ Fits(r)
    /\ PaymentsOf(req[r].invoiceId) = {}
    /\ invoices[req[r].invoiceId].amountPaid = 0

\* C8: the commit of a payment leaves the invoice with
\* newAmountPaid = amountPaid + amount and with status PAID and paidDate
\* set when newAmountPaid >= total, status PARTIAL and paidDate untouched
\* when 0 < newAmountPaid < total, and the status untouched otherwise.
C8_StatusAfterPayment ==
  [][\A r \in Requests :
       (req'[r].pc = "done" /\ req'[r].code = 201 /\ req[r].pc # "done") =>
          LET old == invoices[req[r].invoiceId]
              new == invoices'[req[r].invoiceId]
              n == old.amountPaid + req[r].amount
          IN /\ new.amountPaid = n
             /\ n >= old.total => new.status = "PAID" /\ new.paidDate = Now
             /\ (0 < n /\ n < old.total) =>
                  new.status = "PARTIAL" /\ new.paidDate = old.paidDate
             /\ (n <= 0 /\ n < old.total) =>
                  new.status = old.status /\ new.paidDate = old.paidDate
    ]_vars

\* C8 witness: a payment that completed the total was answered 201 and the
\* invoice is PAID with its paidDate set.
C8_Witness ==
  \E r \in Requests :
    /\ Succeeded(r)
    /\ req[r].invoiceId \in DOMAIN invoices
    /\ invoices[req[r].invoiceId].amountPaid = invoices[req[r].invoiceId].total
    /\ invoices[req[r].invoiceId].status = "PAID"
    /\ invoices[req[r].invoiceId].paidDate = Now

\* C9: a payment whose invoiceId names no stored invoice is answered with
\* the not-found error, and its transaction changes neither the payments
\* nor any invoice.
C9_UnknownInvoiceRejected ==
  [][\A r \in Requests :
       (req[r].pc \in {"find", "check"}
        /\ req[r].invoiceId \notin DOMAIN invoices) =>
          /\ StoreUnchanged
          /\ Moved(r) =>
               \/ req[r].pc = "find" /\ req'[r].pc = "check"
               \/ /\ req'[r].pc = "done"
                  /\ req'[r].code # 201
                  /\ req'[r].err = "notfound"
    ]_vars

\* C9 witness: a request for an invoice that is not in the store was
\* answered with the not-found error and no payment row names that invoice.
C9_Witness ==
  \E r \in Requests :
    /\ Responded(r) /\ req[r].err = "notfound"
    /\ req[r].invoiceId \notin DOMAIN invoices
    /\ PaymentsOf(req[r].invoiceId) = {}

\* The HTTP code the error taxonomy prescribes for an outcome.
CodeMatchesOutcome(code, err) ==
  /\ err = "validation" => code = 400
  /\ err = "notfound" => code = 404
  /\ err = "exceeds" => code # 500
  /\ code = 500 => err = "persistence"

\* C10: every answer carries the stated code: 400 for invalid or missing
\* fields, 404 for an entity that does not exist (payment, PATCH and DELETE
\* on an unknown invoice id included), 500 only for a persistence failure
\* and never for a business-rule rejection.
C10_StatusCodes ==
  /\ \A r \in Requests :
       Responded(r) => CodeMatchesOutcome(req[r].code, req[r].err)
  /\ reply.op # "" => CodeMatchesOutcome(reply.code, reply.err)

\* The rows of invoice b are the same before and after the step.
InvoiceUntouched(b) ==
  /\ b \in DOMAIN invoices'
  /\ invoices'[b] = invoices[b]
  /\ {p \in payments' : p.invoiceId = b} = PaymentsOf(b)
  /\ {l \in lineItems' : l.invoiceId = b} = {l \in lineItems : l.invoiceId = b}

\* C11: a step of payment recording on invoice A, whether the request ends
\* in success or in failure and whatever operations on another invoice B it
\* interleaves with, leaves B's row, line items and payments unchanged; and
\* what the request decides is determined by A's row alone: it goes on to
\* write only when the amount fits A's balance, is rejected for the balance
\* only when it does not, and for a missing invoice only when A is missing.
C11_OtherInvoiceUntouched ==
  [][\A r \in Requests :
       (Moved(r) /\ req[r].pc # "idle") =>
          /\ \A b \in DOMAIN invoices \ {req[r].invoiceId} : InvoiceUntouched(b)
          /\ req[r].pc = "check" =>
               /\ req'[r].pc = "update" => Fits(r)
               /\ req'[r].err = "exceeds" =>
                    req[r].invoiceId \in DOMAIN invoices /\ ~Fits(r)
               /\ req'[r].err = "notfound" =>
                    req[r].invoiceId \notin DOMAIN invoices
    ]_vars

\* C11 witness: one request was answered 201 for an invoice while the other
\* invoice, which another request tried to overpay, is exactly as seeded.
C11_Witness ==
  \E r1, r2 \in Requests :
    /\ Succeeded(r1) /\ Responded(r2) /\ req[r2].err = "exceeds"
    /\ req[r1].invoiceId # req[r2].invoiceId
    /\ req[r1].invoiceId \in DOMAIN invoices
    /\ invoices[req[r1].invoiceId].amountPaid > SeedInvoices[req[r1].invoiceId].amountPaid
    /\ req[r2].invoiceId \in DOMAIN invoices
    /\ invoices[req[r2].invoiceId] = SeedInvoices[req[r2].invoiceId]
    /\ PaymentsOf(req[r2].invoiceId) = {p \in SeedPayments : p.invoiceId = req[r2].invoiceId}

\* C12: a payment row, once stored, is never changed: in every step each
\* stored row is still there with the same columns unless its invoice is
\* deleted in that step, and a row appears only in the commit of a payment
\* request answered 201, one row at a time, for that request's invoice and
\* amount.
C12_PaymentsImmutable ==
  [][
      /\ \A p \in payments :
          \/ p \in payments'
          \/ /\ p.invoiceId \in DOMAIN invoices
             /\ p.invoiceId \notin DOMAIN invoices'
             /\ \A q \in payments' : q.invoiceId # p.invoiceId
      /\ \A p \in payments, q \in payments' :
          (q.invoiceId = p.invoiceId /\ q.seq = p.seq) => q = p
      /\ \A q \in payments' \ payments :
          /\ payments' = payments \cup {q}
          /\ \E r \in Requests :
               /\ req[r].pc = "commit"
               /\ req'[r].pc = "done" /\ req'[r].code = 201
               /\ q.invoiceId = req[r].invoiceId
               /\ q.amount = req[r].amount
    ]_vars

\* C12 witness: an invoice holds two payment rows, the second recorded after
\* the first, and has been cancelled by a PATCH since.
C12_Witness ==
  \E i \in DOMAIN invoices :
    /\ Cardinality(PaymentsOf(i)) >= 2
    /\ invoices[i].status = "CANCELLED"

LineItemsOf(i) == {l \in lineItems : l.invoiceId = i}

RECURSIVE SumLines(_)
SumLines(ls) ==
  IF ls = {} THEN 0
  ELSE LET l == CHOOSE x \in ls : TRUE
       IN l.quantity * l.unitPrice + SumLines(ls \ {l})

\* C13: a created invoice has subtotal = sum over its line items of
\* quantity * unitPrice (negative lines included as they are),
\* taxAmount = subtotal * taxRate / 100 and
\* total = subtotal + taxAmount - discount, an absent taxRate or discount
\* counting as 0; the items (80, 125) and (50, 100) with taxRate 8.5 and no
\* discount give 15000, 1275 and 16275.
C13_CreationTotals ==
  \A i \in DOMAIN invoices :
    LET inv == invoices[i]
        ls == LineItemsOf(i)
    IN /\ inv.subtotal = SumLines(ls)
       /\ inv.taxAmount * 100 * RateScale = inv.subtotal * inv.taxRate
       /\ inv.total = inv.subtotal + inv.taxAmount - inv.discount
       /\ ({[quantity |-> l.quantity, unitPrice |-> l.unitPrice] : l \in ls}
             = {[quantity |-> 80, unitPrice |-> 125],
                [quantity |-> 50, unitPrice |-> 100]}
           /\ Cardinality(ls) = 2 /\ inv.taxRate = 85 /\ inv.discount = 0)
          => (inv.subtotal = 15000 /\ inv.taxAmount = 1275 /\ inv.total = 16275)

\* C13 witness: the invoice of the example is stored with its totals, or an
\* invoice with a negative line, a tax and a discount is.
C13_Witness ==
  \E i \in DOMAIN invoices :
    /\ invoices[i].subtotal = 15000 /\ invoices[i].taxRate = 85
    /\ invoices[i].taxAmount = 1275 /\ invoices[i].total = 16275
    /\ Cardinality(LineItemsOf(i)) = 2

\* C14: every invoice that invoice creation stores has, in the state right
\* after its creation, status DRAFT or SENT and amountPaid = 0, whatever the
\* body of the request.
C14_CreatedDraftOrSent ==
  [][\A i \in DOMAIN invoices' \ DOMAIN invoices :
       /\ invoices'[i].status \in {"DRAFT", "SENT"}
       /\ invoices'[i].amountPaid = 0
    ]_vars

\* A step of PATCH: the last answer is PATCH's and no payment request moved.
PatchStep == reply'.op = "patch" /\ \A r \in Requests : ~Moved(r)
\* A step of payment recording.
PaymentStep == \E r \in Requests : Moved(r)

\* The amounts of the invoice row i are the same before and after the step.
AmountsUnchanged(i) ==
  /\ i \in DOMAIN invoices'
  /\ invoices'[i].subtotal = invoices[i].subtotal
  /\ invoices'[i].taxRate = invoices[i].taxRate
  /\ invoices'[i].taxAmount = invoices[i].taxAmount
  /\ invoices'[i].discount = invoices[i].discount
  /\ invoices'[i].total = invoices[i].total

C16_NoOrphans ==
  /\ \A p \in payments : p.invoiceId \in DOMAIN invoices
  /\ \A l \in lineItems : l.invoiceId \in DOMAIN invoices

\* C16 witness: the seeded invoice that had a payment was deleted after a
\* payment request for it had arrived; the request found no invoice and was
\* answered with the not-found error.
C16_Witness ==
  \E r \in Requests :
    /\ Responded(r) /\ req[r].err = "notfound"
    /\ req[r].rem0 # None
    /\ req[r].invoiceId \notin DOMAIN invoices
    /\ \E p \in SeedPayments : p.invoiceId = req[r].invoiceId

\* C17: a creation without an invoiceNumber obtains a number that no stored
\* invoice holds and that no creation running beside it obtains, in any
\* history of creations and deletions, and so none is rejected for a
\* duplicate number.
C17_GeneratedNumbersUnique ==
  /\ \A r \in Requests :
       req[r].pc = "counted" => ~NumberTaken(InvoiceNumber(req[r].invoiceCount))
  /\ \A r1, r2 \in Requests :
       (r1 # r2 /\ req[r1].pc = "counted" /\ req[r2].pc = "counted")
         => InvoiceNumber(req[r1].invoiceCount) # InvoiceNumber(req[r2].invoiceCount)
  /\ \A r \in Requests : req[r].pc = "done" => req[r].err # "duplicate"

\* C18: every stored payment has amount > 0, and a request whose amount is
\* missing, zero or negative is answered 400 by the validation before any
\* transaction is opened: it is never at a step of the transaction, never
\* holds the write lock, and no payment row carries its amount.
C18_PositiveAmounts ==
  /\ \A p \in payments : p.amount > 0
  /\ \A r \in Requests :
       (req[r].pc # "idle" /\ req[r].amount <= 0) =>
          /\ req[r].pc = "done"
          /\ req[r].code = 400 /\ req[r].err = "validation"
          /\ lock # r

\* C18 witness: a request with a negative amount for an invoice that has
\* payments was answered 400, and another with no amount was too.
C18_Witness ==
  \E r1, r2 \in Requests :
    /\ Responded(r1) /\ req[r1].amount < 0 /\ req[r1].code = 400
    /\ req[r1].invoiceId \in DOMAIN invoices
    /\ PaymentsOf(req[r1].invoiceId) # {}
    /\ Responded(r2) /\ req[r2].amount = Absent /\ req[r2].code = 400
    /\ req[r2].invoiceId = req[r1].invoiceId

\* The position of a handler run, in the order the handler passes them.
PcRank(pc) ==
  CASE pc = "idle" -> 0
    [] pc = "begin" -> 1
    [] pc = "find" -> 2
    [] pc = "check" -> 3
    [] pc = "update" -> 4
    [] pc = "commit" -> 5
    [] pc = "done" -> 6

\* C19: every request eventually receives its response, and only one: a
\* success, or a failure that carries an error; a handler run only moves
\* forward, so a failed transaction is not attempted again; and a request
\* stores at most one payment row, at its commit.
C19_OneResponseNoRetry ==
  /\ \A r \in Requests : (req[r].pc \notin {"idle", "done"}) ~> Responded(r)
  /\ [](\A r \in Requests :
          Responded(r) =>
            \/ req[r].code = 201 /\ req[r].err = ""
            \/ req[r].code \in {400, 500} /\ req[r].err # "")
  /\ [][\A r \in Requests :
          Moved(r) =>
            /\ \/ PcRank(req'[r].pc) > PcRank(req[r].pc)
               \/ req[r].pc = "done" /\ req'[r].pc = "idle"
            /\ Cardinality(payments' \ payments) <= 1
            /\ payments' # payments =>
                 req[r].pc = "commit" /\ req'[r].pc = "done"
       ]_vars

\* C19 witness: a request whose transaction the store failed has its one
\* answer, an error, beside a request answered 201, and the invoice of the
\* failed request has no more payment rows than the seed gave it.
C19_Witness ==
  \E r1, r2 \in Requests :
    /\ Responded(r1) /\ req[r1].err = "persistence" /\ req[r1].code = 500
    /\ Succeeded(r2)
    /\ req[r1].invoiceId # req[r2].invoiceId
    /\ PaymentsOf(req[r1].invoiceId) = {p \in SeedPayments : p.invoiceId = req[r1].invoiceId}

\* C20: a request made under tenant T reads and writes only rows of T: the
\* invoice its transaction has read is T's, and an invoice it has recorded
\* a payment on is T's.
C20_TenantScoped ==
  \A r \in Requests :
    /\ req[r].inv # None => req[r].inv[1].tenantId = TenantOf(r)
    /\ (Succeeded(r) /\ req[r].invoiceId \in DOMAIN invoices) =>
         invoices[req[r].invoiceId].tenantId = TenantOf(r)

\* The tenant id a host header resolves to ("" when none does).
ResolvedId(host) ==
  IF PageTenant[host] = None THEN "" ELSE PageTenant[host][1].id

\* The invoices of tenant t are the same before and after the step.
TenantRowsUnchanged(t) ==
  /\ {i \in DOMAIN invoices' : invoices'[i].tenantId = t}
       = {i \in DOMAIN invoices : invoices[i].tenantId = t}
  /\ \A i \in DOMAIN invoices :
       invoices[i].tenantId = t => invoices'[i] = invoices[i]

\* C21: for every host header, the tenant dashboard lists exactly the
\* invoices whose tenantId is the tenant the header resolves to and counts
\* and sums exactly those; when no tenant resolves it is the not-found page
\* with no invoice; and a step that changes only invoices of other tenants
\* leaves the page as it was.
C21_DashboardScoped ==
  /\ [](\A host \in PageHosts :
          LET page == TenantInvoicesPage(PageTenant[host], invoices)
              mine == {i \in DOMAIN invoices : invoices[i].tenantId = ResolvedId(host)}
          IN IF ResolvedId(host) = ""
             THEN page.notFound /\ page.rows = <<>>
             ELSE /\ ~page.notFound
                  /\ {page.rows[k].id : k \in DOMAIN page.rows} = mine
                  /\ Len(page.rows) = Cardinality(mine)
                  /\ page.stats.total = Cardinality(mine)
                  /\ page.stats.totalPaid = SumOver(invoices, mine, "amountPaid")
                  /\ page.stats.totalRevenue = SumOver(invoices, mine, "total"))
  /\ [][\A host \in PageHosts :
          TenantRowsUnchanged(ResolvedId(host)) =>
            TenantInvoicesPage(PageTenant[host], invoices')
              = TenantInvoicesPage(PageTenant[host], invoices)
       ]_vars

\* C21 witness: globex's invoice has been paid further and cancelled while
\* acme's page still shows acme's seeded invoice alone, unpaid.
C21_Witness ==
  LET page == TenantInvoicesPage(
                PageTenant[Some(AcmeName \o DotLocalhost \o <<":", "3", "0", "0", "0">>)],
                invoices)
  IN /\ Len(page.rows) = 1 /\ page.rows[1].id = 1
     /\ page.stats.totalPaid = 0 /\ page.stats.sent = 1
     /\ 2 \in DOMAIN invoices
     /\ invoices[2].amountPaid > SeedInvoices[2].amountPaid
     /\ invoices[2].status = "CANCELLED"

HostAcmeLocal == Some(AcmeName \o DotLocalhost \o <<":", "3", "0", "0", "0">>)
HostAcmeProd ==
  Some(AcmeName \o Dot \o <<"e", "x", "a", "m", "p", "l", "e">> \o Dot \o <<"c", "o", "m">>)
HostBare == Some(<<"e", "x", "a", "m", "p", "l", "e">> \o Dot \o <<"c", "o", "m">>)
HostLocal == Some(<<"l", "o", "c", "a", "l", "h", "o", "s", "t", ":", "3", "0", "0", "0">>)

\* C23: for every host header, getSubdomain returns what stands before
\* ".localhost" with the port stripped for a localhost host, the first label
\* for a host of at least three dot-separated parts, and null for a missing
\* host and for a host without subdomain; it never returns the empty string
\* nor a value that contains a port.
C23_SubdomainOrNull ==
  reply.op = "requireTenant" =>
    /\ reply.subdomain # Some(<<>>)
    /\ reply.subdomain # None => ~Includes(reply.subdomain[1], Colon)
    /\ reply.host = None => reply.subdomain = None
    /\ reply.host = HostAcmeLocal => reply.subdomain = Some(AcmeName)
    /\ reply.host = HostAcmeProd => reply.subdomain = Some(AcmeName)
    /\ reply.host \in {HostBare, HostLocal} => reply.subdomain = None
    /\ (reply.host # None /\ ~Includes(reply.host[1], DotLocalhost)
        /\ Len(SplitDots(reply.host[1])) < 3) => reply.subdomain = None

\* C24: requireTenant returns a tenant only when the subdomain of the host
\* header is that of a stored tenant that is active, and then returns that
\* tenant; when there is no subdomain, no stored tenant has it, or the
\* tenant is inactive, it throws and returns nothing.
C24_RequireActiveTenant ==
  reply.op = "requireTenant" =>
    LET sub == reply.subdomain
        matching == {t \in Tenants :
                       sub # None /\ sub # Some(<<>>) /\ t.subdomain = sub[1]}
        returned == reply.result.tenant
    IN /\ returned # None =>
            /\ reply.result.threw = ""
            /\ returned[1] \in matching
            /\ returned[1].active
       /\ (\E t \in matching : t.active) => returned # None
       /\ returned = None <=> reply.result.threw # ""

\* C24 witness: requireTenant threw for the host of the inactive tenant.
C24_Witness ==
  /\ reply.op = "requireTenant"
  /\ reply.subdomain = Some(DormantName)
  /\ reply.result.tenant = None
  /\ reply.result.threw = "tenant inactive"

\* C25: a request that the input validation rejects is answered 400 and
\* leaves the store unchanged: the step in which a payment request is
\* answered 400, and the step in which an invoice creation is answered 400,
\* change no invoice, no line item and no payment; and every payment
\* request without invoiceId or with amount missing or <= 0 is answered 400.
C25_RejectedLeavesStore ==
  [][
      /\ \A r \in Requests :
           (Moved(r) /\ req'[r].pc = "done" /\ req'[r].code = 400) =>
              StoreUnchanged /\ lock' = lock /\ nextId' = nextId
      /\ \A r \in Requests :
           (Moved(r) /\ req[r].pc = "idle"
            /\ (req'[r].invoiceId = Absent \/ req'[r].amount <= 0)) =>
              req'[r].pc = "done" /\ req'[r].code = 400
      /\ (reply'.op = "createInvoice" /\ reply'.code = 400
          /\ \A r \in Requests : ~Moved(r)) =>
              StoreUnchanged /\ lock' = lock /\ nextId' = nextId
    ]_vars

\* C25 witness: an invoice creation and a payment request without invoiceId
\* have both been answered 400 while the store holds an invoice with a
\* payment.
C25_Witness ==
  /\ reply.op = "createInvoice" /\ reply.code = 400
  /\ \E r \in Requests :
       Responded(r) /\ req[r].code = 400 /\ req[r].invoiceId = Absent
  /\ \E i \in DOMAIN invoices : PaymentsOf(i) # {}


RECURSIVE SumLineAmounts(_)
SumLineAmounts(ls) ==
  IF ls = {} THEN 0
  ELSE LET l == CHOOSE x \in ls : TRUE
       IN l.amount + SumLineAmounts(ls \ {l})

\* C26: every line item of a created invoice stores amount =
\* quantity * unitPrice and order = its position in the request (from 0), and
\* the invoice's subtotal is the sum of its line items' amounts; payments and
\* PATCH edits that follow change neither the line items nor the subtotal.
C26_LineItemsKeepAmounts ==
  [][
      /\ (nextId' # nextId) =>
            \E b \in LineBodies :
               /\ {l \in lineItems' : l.invoiceId = nextId}
                     = {[invoiceId |-> nextId, order |-> k - 1,
                         quantity |-> b.lineItems[k].quantity,
                         unitPrice |-> b.lineItems[k].unitPrice,
                         amount |-> b.lineItems[k].quantity
                                       * b.lineItems[k].unitPrice]
                        : k \in DOMAIN b.lineItems}
               /\ reply'.op = "createInvoice" /\ reply'.code = 201
      /\ \A i \in DOMAIN invoices' :
            LET ls == {l \in lineItems' : l.invoiceId = i}
            IN /\ \A l \in ls : l.amount = l.quantity * l.unitPrice
               /\ {l.order : l \in ls} = 0..(Cardinality(ls) - 1)
               /\ invoices'[i].subtotal = SumLineAmounts(ls)
      /\ \A i \in DOMAIN invoices :
            /\ i \in DOMAIN invoices'
            /\ {l \in lineItems' : l.invoiceId = i} = LineItemsOf(i)
            /\ invoices'[i].subtotal = invoices[i].subtotal
    ]_vars

C26_Witness ==
  \E i \in DOMAIN invoices :
     /\ Cardinality(LineItemsOf(i)) = MaxLineItems
     /\ \E l \in LineItemsOf(i) : l.order = 1 /\ l.amount = -1
     /\ \E l \in LineItemsOf(i) : l.order = 2 /\ l.amount = 2
     /\ invoices[i].amountPaid > 0
     /\ PaymentsOf(i) # {}
     /\ invoices[i].dueDate = Later
     /\ invoices[i].status = "CANCELLED"


\* C27: from a store in which every invoice's amountPaid is the sum of its
\* payment rows, every step of any number of payment requests on one
\* invoice, their transactions interleaved as the store allows, leads to a
\* store with the same equality; a commit adds its amount to the amountPaid
\* the store holds at that moment, so no update made since the transaction
\* read the invoice is lost.
C27_NoLostUpdate ==
  [][
      /\ \A i \in DOMAIN invoices' :
            SumPaid({p \in payments' : p.invoiceId = i}) = invoices'[i].amountPaid
      /\ \A r \in Requests :
            (Moved(r) /\ req'[r].pc = "done" /\ req'[r].code = 201) =>
               LET i == req[r].invoiceId
               IN /\ invoices'[i].amountPaid
                       = invoices[i].amountPaid + req[r].amount
                  /\ Cardinality({p \in payments' : p.invoiceId = i})
                       = Cardinality(PaymentsOf(i)) + 1
    ]_vars

\* C27 witness: two requests that arrived at the same balance of one invoice
\* have both succeeded, and the invoice holds the sum of both amounts.
C27_Witness ==
  \E r1, r2 \in Requests :
     /\ r1 # r2
     /\ Succeeded(r1) /\ Succeeded(r2)
     /\ req[r1].invoiceId = req[r2].invoiceId
     /\ req[r1].rem0 # None /\ req[r1].rem0 = req[r2].rem0
     /\ req[r1].invoiceId \in DOMAIN invoices
     /\ invoices[req[r1].invoiceId].amountPaid = req[r1].amount + req[r2].amount
     /\ Cardinality(PaymentsOf(req[r1].invoiceId)) = 2


\* C28: a payment that succeeds on an invoice with amountPaid >= 0 leaves
\* the invoice PAID or PARTIAL, whatever its status was before; the new
\* amountPaid is positive, so the branch that keeps the status is not taken.
C28_SuccessSetsStatus ==
  [][\A r \in Requests :
       (Moved(r) /\ req'[r].pc = "done" /\ req'[r].code = 201
        /\ invoices[req[r].invoiceId].amountPaid >= 0) =>
          /\ invoices'[req[r].invoiceId].status \in {"PAID", "PARTIAL"}
          /\ invoices'[req[r].invoiceId].amountPaid > 0
          /\ (invoices'[req[r].invoiceId].status = "PAID")
                <=> (invoices'[req[r].invoiceId].amountPaid
                        >= invoices'[req[r].invoiceId].total)
    ]_vars

\* C28 witness: the invoice has not been edited since its creation (the
\* last reply of the invoice API is the creation's 201, which never stores
\* PARTIAL), a payment below its total has succeeded, and it is PARTIAL.
C28_Witness ==
  \E r \in Requests :
     /\ Succeeded(r)
     /\ reply.op = "createInvoice" /\ reply.code = 201
     /\ req[r].invoiceId \in DOMAIN invoices
     /\ invoices[req[r].invoiceId].status = "PARTIAL"
     /\ invoices[req[r].invoiceId].amountPaid = req[r].amount
     /\ Cardinality(PaymentsOf(req[r].invoiceId)) = 1

\* C29: in every state reached through invoice creation, payments and
\* PATCH, an invoice has a paidDate exactly when its status is PAID.
C29_PaidDateIffPaid ==
  \A i \in DOMAIN invoices :
    (invoices[i].status = "PAID") <=> (invoices[i].paidDate # NULL)


\* C30: the amountPaid of an invoice never decreases, and from the moment
\* amountPaid >= total no payment request on the invoice succeeds and no
\* payment row is added to it, whatever status PATCH gives it afterwards
\* (neither PATCH nor a payment changes the total, so the invoice stays
\* fully paid).
C30_FullPaymentIsTerminal ==
  [][\A i \in DOMAIN invoices :
       i \in DOMAIN invoices' =>
          /\ invoices'[i].amountPaid >= invoices[i].amountPaid
          /\ invoices'[i].total = invoices[i].total
          /\ invoices[i].amountPaid >= invoices[i].total =>
                /\ invoices'[i].amountPaid = invoices[i].amountPaid
                /\ {p \in payments' : p.invoiceId = i} = PaymentsOf(i)
                /\ \A r \in Requests :
                      (Moved(r) /\ req'[r].pc = "done" /\ req[r].invoiceId = i)
                         => req'[r].code # 201
                /\ \A r \in Requests :
                      (Moved(r) /\ req[r].pc = "check" /\ req[r].inv # None
                       /\ req[r].invoiceId = i)
                         => req'[r].pc = "done" /\ req'[r].err = "exceeds"
    ]_vars

\* C30 witness: an invoice was paid in full, PATCH has moved it out of PAID,
\* and a request that arrived at the zero balance was refused; the invoice
\* still has the rows and the amount of its full payment.
C30_Witness ==
  \E r \in Requests :
     /\ Responded(r) /\ req[r].err = "exceeds"
     /\ req[r].rem0 = Some(0)
     /\ req[r].invoiceId \in DOMAIN invoices
     /\ invoices[req[r].invoiceId].total > 0
     /\ invoices[req[r].invoiceId].amountPaid = invoices[req[r].invoiceId].total
     /\ invoices[req[r].invoiceId].status \in {"SENT", "CANCELLED"}
     /\ SumPaid(PaymentsOf(req[r].invoiceId)) = invoices[req[r].invoiceId].total

====
